---- MODULE Spec2Model ----
(***************************************************************************)
(* The user API of the workshop: an Express application (server.ts) whose  *)
(* router (routes/user.routes.ts) dispatches to the controller             *)
(* (controllers/user.controller.ts), which awaits the service, which       *)
(* awaits the repository, which calls the Prisma delegate of model User    *)
(* (SQLite, id autoincrement, email unique).                               *)
(*                                                                         *)
(* Two programs are specified.  Spec is the program of the source files:   *)
(* three routes.  SpecEtapa6 is the program the README's "Etapa 6" listing  *)
(* describes: the same files with update and delete added at every layer.  *)
(*                                                                         *)
(* A handler runs without interruption from the arrival of its request to  *)
(* its first await, and again from the completion of an awaited store call *)
(* to the next await or to the response.  Each store call is one atomic    *)
(* statement of the database.  So one step of the model is: a request      *)
(* arrives and its first store call completes; or a later store call of a  *)
(* request in flight completes; or an exception that left the handler is   *)
(* answered by the framework.                                              *)
(***************************************************************************)
EXTENDS Integers, Sequences, FiniteSets, TLC

\* Cap on the number of rows ever inserted (the autoincrement counter).
MaxUsers == 2

\* HTTP clients; each has at most one request outstanding.
Clients == {"c1", "c2"}

\* Values a request body may carry.
Names == {"Ana", "Bia"}
Emails == {"a@x", "b@x"}

\* A field the body does not carry (JavaScript undefined).
undefined == "undefined"

\* findUnique's "no such row" (JavaScript null); a found row r is <<r>>.
null == << >>

\* The :id path parameter as the client wrote it: a string of decimal digits.
IdParams == { <<1>>, <<2>>, <<0, 1>> }

\* Number(id) on a string of decimal digits.
RECURSIVE Number(_)
Number(s) ==
  IF s = << >> THEN 0
  ELSE 10 * Number(SubSeq(s, 1, Len(s) - 1)) + s[Len(s)]

(***************************************************************************)
(* Requests and responses.                                                 *)
(***************************************************************************)
Request(m, p, i, n, e) ==
  [method |-> m, path |-> p, id |-> i, name |-> n, email |-> e]

NoReq == Request("", "", << >>, undefined, undefined)

Requests ==
       { Request("POST", "/users", << >>, n, e) : n \in Names, e \in Emails }
  \cup { Request("GET", "/users", << >>, undefined, undefined) }
  \cup { Request("GET", "/users/:id", i, undefined, undefined) : i \in IdParams }
  \cup { Request("PUT", "/users/:id", i, n, e) :
           i \in IdParams, n \in Names \cup {undefined}, e \in Emails \cup {undefined} }
  \cup { Request("DELETE", "/users/:id", i, undefined, undefined) : i \in IdParams }

\* What a handler leaves behind: either a response that was written (err = ""),
\* or an exception that left the handler before anything was written.
Response(s, k, d, m) ==
  [err |-> "", status |-> s, kind |-> k, data |-> d, message |-> m]

Thrown(e) ==
  [err |-> e, status |-> 0, kind |-> "none", data |-> << >>, message |-> ""]

\* What an awaited call leaves behind: a value, or an exception.
Resolved(v) == [err |-> "", value |-> v]
Rejected(e) == [err |-> e, value |-> null]

(***************************************************************************)
(* The store: table User and SQLite's autoincrement counter.               *)
(***************************************************************************)
VARIABLES
  User,             \* the rows of table User, in insertion order
  sqlite_sequence,  \* the largest id ever assigned
  conn,             \* per client: the position of its request in flight
  res,              \* the response written last, with its request
  created           \* history: the ids of all rows ever inserted

vars == <<User, sqlite_sequence, conn, res, created>>

Ids(tbl) == { tbl[i].id : i \in 1..Len(tbl) }
EmailsOf(tbl) == { tbl[i].email : i \in 1..Len(tbl) }
Row(tbl, id) == tbl[CHOOSE i \in 1..Len(tbl) : tbl[i].id = id]

\* The effect of a store call: its outcome and the table afterwards.
Effect(o, tbl, seq) == [out |-> o, rows |-> tbl, seq |-> seq]

\* User.create({ data }): id from the autoincrement counter, email unique.
User_create(tbl, seq, data) ==
  IF data.email \in EmailsOf(tbl)
  THEN Effect(Rejected("P2002"), tbl, seq)
  ELSE LET row == [id |-> seq + 1, name |-> data.name, email |-> data.email]
       IN  Effect(Resolved(<<row>>), Append(tbl, row), seq + 1)

\* User.findMany()
User_findMany(tbl) == tbl

\* User.findUnique({ where: { id } })
User_findUnique(tbl, id) ==
  IF id \in Ids(tbl) THEN <<Row(tbl, id)>> ELSE null

\* User.update({ where: { id }, data }): a field that is undefined is left alone.
\* User.update had the schema not declared email unique.
User_update_notUnique(tbl, seq, id, data) ==
  IF id \notin Ids(tbl)
  THEN Effect(Rejected("P2025"), tbl, seq)
  ELSE LET old == Row(tbl, id)
           new == [id    |-> id,
                   name  |-> IF data.name = undefined THEN old.name ELSE data.name,
                   email |-> IF data.email = undefined THEN old.email ELSE data.email]
       IN  Effect(Resolved(<<new>>),
                  [i \in 1..Len(tbl) |-> IF tbl[i].id = id THEN new ELSE tbl[i]],
                  seq)

User_update(tbl, seq, id, data) ==
  IF id \notin Ids(tbl)
  THEN Effect(Rejected("P2025"), tbl, seq)
  ELSE IF /\ data.email # undefined
          /\ \E i \in 1..Len(tbl) : tbl[i].email = data.email /\ tbl[i].id # id
  THEN Effect(Rejected("P2002"), tbl, seq)
  ELSE LET old == Row(tbl, id)
           new == [id    |-> id,
                   name  |-> IF data.name = undefined THEN old.name ELSE data.name,
                   email |-> IF data.email = undefined THEN old.email ELSE data.email]
       IN  Effect(Resolved(<<new>>),
                  [i \in 1..Len(tbl) |-> IF tbl[i].id = id THEN new ELSE tbl[i]],
                  seq)

\* User.delete({ where: { id } })
User_delete(tbl, seq, id) ==
  IF id \notin Ids(tbl)
  THEN Effect(Rejected("P2025"), tbl, seq)
  ELSE Effect(Resolved(<<Row(tbl, id)>>),
              SelectSeq(tbl, LAMBDA r : r.id # id),
              seq)

(***************************************************************************)
(* repositories/user.repository.ts                                         *)
(***************************************************************************)
\* create written as an upsert on email: an existing row is returned.
Repository_create_upsert(tbl, seq, data) ==
  IF data.email \in EmailsOf(tbl)
  THEN Effect(Resolved(<<tbl[CHOOSE i \in 1..Len(tbl) : tbl[i].email = data.email]>>),
              tbl, seq)
  ELSE User_create(tbl, seq, data)

Repository_create(tbl, seq, data) == User_create(tbl, seq, data)

Repository_update(tbl, seq, id, data) == User_update(tbl, seq, id, data)

Repository_remove(tbl, seq, id) == User_delete(tbl, seq, id)

\* findAll written with findMany({ take: 1 }).
Repository_findAll_takeOne(tbl) ==
  IF User_findMany(tbl) = << >> THEN << >> ELSE << User_findMany(tbl)[1] >>

Repository_findAll(tbl) == User_findMany(tbl)

Repository_findById(tbl, id) == User_findUnique(tbl, id)

(***************************************************************************)
(* services/user.service.ts                                                *)
(***************************************************************************)
Service_createUser(tbl, seq, data) == Repository_create(tbl, seq, data)

Service_getAllUsers(tbl) == Repository_findAll(tbl)

Service_getUserById(tbl, id) == Repository_findById(tbl, id)

\* updateUser and deleteUser: "if (!user) return null", decided on what the
\* awaited findById returned.
\* updateUser without the check (the service as first listed in Etapa 6).
Service_updateUser_noCheck(user) == FALSE

Service_updateUser_returnsNull(user) == user = null

Service_deleteUser_returnsNull(user) == user = null

(***************************************************************************)
(* controllers/user.controller.ts: what the handler does once the awaited  *)
(* service call has settled.                                               *)
(***************************************************************************)
\* createUser answering 200 instead of 201.
Controller_createUser_status200(awaited) ==
  IF awaited.err # "" THEN Thrown(awaited.err)
  ELSE Response(200, "object", awaited.value, "")

\* createUser with the await in a try/catch that answers 400.
Controller_createUser_catches(awaited) ==
  IF awaited.err # "" THEN Response(400, "message", << >>, awaited.err)
  ELSE Response(201, "object", awaited.value, "")

Controller_createUser(awaited) ==
  IF awaited.err # "" THEN Thrown(awaited.err)
  ELSE Response(201, "object", awaited.value, "")

Controller_getAllUsers(users) == Response(200, "array", users, "")

\* getUserById without the "if (user)" test.
Controller_getUserById_noTest(user) == Response(200, "object", user, "")

Controller_getUserById(user) ==
  IF user # null THEN Response(200, "object", user, "")
  ELSE Response(404, "message", << >>, "User not found")

Controller_updateUser(awaited) ==
  IF awaited.err # "" THEN Thrown(awaited.err)
  ELSE IF awaited.value = null THEN Response(404, "message", << >>, "User not found")
  ELSE Response(200, "object", awaited.value, "")

Controller_deleteUser(awaited) ==
  IF awaited.err # "" THEN Thrown(awaited.err)
  ELSE IF awaited.value = null THEN Response(404, "message", << >>, "User not found")
  ELSE Response(204, "empty", << >>, "")

(***************************************************************************)
(* routes/user.routes.ts and server.ts                                     *)
(***************************************************************************)
Route(m, p, h) == [method |-> m, path |-> p, handler |-> h]

routes ==
  << Route("POST", "/users", "createUser"),
     Route("GET", "/users", "getAllUsers"),
     Route("GET", "/users/:id", "getUserById") >>

\* The router after the two routes of Etapa 6 are added.
routesEtapa6 ==
  routes \o << Route("PUT", "/users/:id", "updateUser"),
              Route("DELETE", "/users/:id", "deleteUser") >>

\* The handler of the first route that matches, "" when none does.
Match(rt, req) ==
  LET hits == { i \in 1..Len(rt) : rt[i].method = req.method /\ rt[i].path = req.path }
  IN  IF hits = {} THEN ""
      ELSE rt[CHOOSE i \in hits : \A j \in hits : i <= j].handler

\* app has no middleware after the router: a request no route matched, and an
\* exception passed on by a handler, end in the framework's final handler.
finalhandler(err) ==
  IF err = "" THEN Response(404, "html", << >>, "Cannot")
  ELSE Response(500, "html", << >>, "Internal Server Error")

(***************************************************************************)
(* The state after construction.                                           *)
(***************************************************************************)
Idle == [pc |-> "idle", req |-> NoReq, err |-> ""]

NoRes == [req |-> NoReq, status |-> 0, kind |-> "none", data |-> << >>, message |-> ""]

Written(req, r) ==
  [req |-> req, status |-> r.status, kind |-> r.kind, data |-> r.data,
   message |-> r.message]

Init ==
  /\ User = << >>
  /\ sqlite_sequence = 0
  /\ conn = [c \in Clients |-> Idle]
  /\ res = NoRes
  /\ created = {}

\* The handler of client c's request has ended with r.
Finish(c, req, r) ==
  IF r.err = ""
  THEN /\ res' = Written(req, r)
       /\ conn' = [conn EXCEPT ![c] = Idle]
  ELSE /\ conn' = [conn EXCEPT ![c] = [pc |-> "rejected", req |-> req, err |-> r.err]]
       /\ UNCHANGED res

(***************************************************************************)
(* POST /users                                                             *)
(***************************************************************************)
createUser(rt, c) ==
  /\ conn[c].pc = "idle"
  /\ \E req \in Requests :
       /\ Match(rt, req) = "createUser"
       /\ LET e == Service_createUser(User, sqlite_sequence,
                                      [name |-> req.name, email |-> req.email])
          IN  /\ e.seq <= MaxUsers
              /\ User' = e.rows
              /\ sqlite_sequence' = e.seq
              /\ created' = created \cup { e.rows[i].id : i \in Len(User) + 1 .. Len(e.rows) }
              /\ Finish(c, req, Controller_createUser(e.out))

(***************************************************************************)
(* GET /users                                                              *)
(***************************************************************************)
getAllUsers(rt, c) ==
  /\ conn[c].pc = "idle"
  /\ \E req \in Requests :
       /\ Match(rt, req) = "getAllUsers"
       /\ Finish(c, req, Controller_getAllUsers(Service_getAllUsers(User)))
  /\ UNCHANGED <<User, sqlite_sequence, created>>

(***************************************************************************)
(* GET /users/:id                                                          *)
(***************************************************************************)
getUserById(rt, c) ==
  /\ conn[c].pc = "idle"
  /\ \E req \in Requests :
       /\ Match(rt, req) = "getUserById"
       /\ Finish(c, req, Controller_getUserById(Service_getUserById(User, Number(req.id))))
  /\ UNCHANGED <<User, sqlite_sequence, created>>

(***************************************************************************)
(* A request no route matches.                                             *)
(***************************************************************************)
notFound(rt, c) ==
  /\ conn[c].pc = "idle"
  /\ \E req \in Requests :
       /\ Match(rt, req) = ""
       /\ Finish(c, req, finalhandler(""))
  /\ UNCHANGED <<User, sqlite_sequence, created>>

(***************************************************************************)
(* An exception that left a handler reaches the final handler.             *)
(***************************************************************************)
errorHandler(c) ==
  /\ conn[c].pc = "rejected"
  /\ Finish(c, conn[c].req, finalhandler(conn[c].err))
  /\ UNCHANGED <<User, sqlite_sequence, created>>

(***************************************************************************)
(* PUT /users/:id: the service awaits findById, then awaits update.        *)
(***************************************************************************)
updateUser(rt, c) ==
  /\ conn[c].pc = "idle"
  /\ \E req \in Requests :
       /\ Match(rt, req) = "updateUser"
       /\ IF Service_updateUser_returnsNull(Repository_findById(User, Number(req.id)))
          THEN Finish(c, req, Controller_updateUser(Resolved(null)))
          ELSE /\ conn' = [conn EXCEPT ![c] = [pc |-> "updating", req |-> req, err |-> ""]]
               /\ UNCHANGED res
  /\ UNCHANGED <<User, sqlite_sequence, created>>

updateUser_update(c) ==
  /\ conn[c].pc = "updating"
  /\ LET req == conn[c].req
         e == Repository_update(User, sqlite_sequence, Number(req.id),
                                [name |-> req.name, email |-> req.email])
     IN  /\ User' = e.rows
         /\ sqlite_sequence' = e.seq
         /\ Finish(c, req, Controller_updateUser(e.out))
  /\ UNCHANGED created

(***************************************************************************)
(* DELETE /users/:id: the service awaits findById, then awaits remove.     *)
(***************************************************************************)
deleteUser(rt, c) ==
  /\ conn[c].pc = "idle"
  /\ \E req \in Requests :
       /\ Match(rt, req) = "deleteUser"
       /\ IF Service_deleteUser_returnsNull(Repository_findById(User, Number(req.id)))
          THEN Finish(c, req, Controller_deleteUser(Resolved(null)))
          ELSE /\ conn' = [conn EXCEPT ![c] = [pc |-> "removing", req |-> req, err |-> ""]]
               /\ UNCHANGED res
  /\ UNCHANGED <<User, sqlite_sequence, created>>

deleteUser_remove(c) ==
  /\ conn[c].pc = "removing"
  /\ LET req == conn[c].req
         e == Repository_remove(User, sqlite_sequence, Number(req.id))
     IN  /\ User' = e.rows
         /\ sqlite_sequence' = e.seq
         /\ Finish(c, req, Controller_deleteUser(e.out))
  /\ UNCHANGED created

Next ==
  \E c \in Clients :
    \/ createUser(routes, c)
    \/ getAllUsers(routes, c)
    \/ getUserById(routes, c)
    \/ notFound(routes, c)
    \/ errorHandler(c)

Spec == Init /\ [][Next]_vars

\* The event loop runs every continuation that is ready.
FairSpec == Spec /\ \A c \in Clients : WF_vars(errorHandler(c))

\* The program of the README's Etapa 6.
NextEtapa6 ==
  \E c \in Clients :
    \/ createUser(routesEtapa6, c)
    \/ getAllUsers(routesEtapa6, c)
    \/ getUserById(routesEtapa6, c)
    \/ updateUser(routesEtapa6, c)
    \/ updateUser_update(c)
    \/ deleteUser(routesEtapa6, c)
    \/ deleteUser_remove(c)
    \/ errorHandler(c)

SpecEtapa6 == Init /\ [][NextEtapa6]_vars

(***************************************************************************)
(* Steps, as the properties below name them.                               *)
(***************************************************************************)
\* This step wrote the response to a request of method m on path p.
Answers(m, p) == res' # res /\ res'.req.method = m /\ res'.req.path = p

\* This step left client c's handler with an exception and nothing written.
Throws(c) == conn[c].pc # "rejected" /\ conn'[c].pc = "rejected"

\* This step completed the awaited update or remove of client c.
Calls(c) == conn[c].pc \in {"updating", "removing"} /\ conn'[c].pc # conn[c].pc

NotFoundBody(r) == r.status = 404 /\ r.kind = "message" /\ r.message = "User not found"

EmailUnique ==
  \A i, j \in 1..Len(User) : User[i].email = User[j].email => i = j

(***************************************************************************)
(* C3: POST /users with an email no stored User has answers 201 with the   *)
(* created record; the record is appended to the store with the given name *)
(* and email; its id is that of no stored User and of no User created      *)
(* before.                                                                 *)
(***************************************************************************)
C3_CreateAssignsNewId ==
  [][ /\ \A c \in Clients :
           Throws(c) /\ conn'[c].req.method = "POST"
             => conn'[c].req.email \in EmailsOf(User)
      /\ Answers("POST", "/users") /\ conn' = conn
           /\ res'.req.email \notin EmailsOf(User)
           => /\ res'.status = 201
              /\ res'.kind = "object"
              /\ Len(res'.data) = 1
              /\ LET user == res'.data[1]
                 IN  /\ user.name = res'.req.name
                     /\ user.email = res'.req.email
                     /\ user.id \notin Ids(User)
                     /\ user.id \notin created
                     /\ User' = Append(User, user)
    ]_vars

C3_Witness ==
  /\ res.req.method = "POST"
  /\ res.status = 201
  /\ Len(User) = 2
  /\ res.data = <<User[2]>>

(***************************************************************************)
(* C4: POST /users with an email a stored User holds is never answered 201 *)
(* and leaves the store as it was: no row added, no row changed.           *)
(***************************************************************************)
C4_DuplicateEmailRejected ==
  [][ /\ \A c \in Clients :
           Throws(c) /\ conn'[c].req.method = "POST"
             => User' = User /\ sqlite_sequence' = sqlite_sequence /\ res' = res
      /\ Answers("POST", "/users") /\ res'.req.email \in EmailsOf(User)
           => res'.status # 201 /\ User' = User /\ sqlite_sequence' = sqlite_sequence
    ]_vars

C4_Witness ==
  /\ res.req.method = "POST"
  /\ res.status = 500
  /\ res.req.email \in EmailsOf(User)

(***************************************************************************)
(* C5: GET /users/:id answers 404 {message: "User not found"} exactly when *)
(* no stored User has the id, and otherwise 200 with the stored record of  *)
(* that id; the store is unchanged either way.                             *)
(***************************************************************************)
C5_GetByIdContract ==
  [][ Answers("GET", "/users/:id")
        => /\ User' = User
           /\ sqlite_sequence' = sqlite_sequence
           /\ LET id == Number(res'.req.id)
              IN  IF id \in Ids(User)
                  THEN /\ res'.status = 200
                       /\ res'.kind = "object"
                       /\ res'.data = <<Row(User, id)>>
                  ELSE /\ NotFoundBody(res')
                       /\ res'.data = << >>
    ]_vars

C5_Witness ==
  /\ res.req.method = "GET"
  /\ res.req.path = "/users/:id"
  /\ res.status = 404
  /\ User # << >>

(***************************************************************************)
(* C6: GET /users answers 200 with exactly the stored Users; with no       *)
(* deletion, after N creations that is a list of N records holding every   *)
(* created record as it was created.                                       *)
(***************************************************************************)
C6_GetAllReturnsStore ==
  [][ /\ \A i \in 1..Len(User) : i <= Len(User') /\ User'[i] = User[i]
      /\ Answers("GET", "/users")
           => /\ res'.status = 200
              /\ res'.kind = "array"
              /\ res'.data = User
              /\ User' = User
              /\ Len(res'.data) = Cardinality(created)
              /\ { res'.data[i].id : i \in 1..Len(res'.data) } = created
    ]_vars

C6_Witness ==
  /\ res.req.method = "GET"
  /\ res.req.path = "/users"
  /\ Len(res.data) = 2

(***************************************************************************)
(* C9: a store failure leaves the handler uncaught (nothing is written     *)
(* when it is thrown), the final handler then answers it, once, with 500;  *)
(* POST /users with a duplicate email is eventually answered 500 and never *)
(* 2xx.                                                                    *)
(***************************************************************************)
C9_StoreFailureAnswered500 ==
  /\ [][ /\ \A c \in Clients : Throws(c) => res' = res
         /\ \A c \in Clients :
              conn[c].pc = "rejected" /\ conn'[c] # conn[c]
                => /\ conn'[c] = Idle
                   /\ res'.req = conn[c].req
                   /\ res'.status = 500
         /\ Answers("POST", "/users") /\ res'.req.email \in EmailsOf(User)
              => res'.status = 500
       ]_vars
  /\ \A c \in Clients : (conn[c].pc = "rejected") ~> (conn[c] = Idle)

C9_Witness ==
  \E c \in Clients :
    /\ conn[c].pc = "rejected"
    /\ conn[c].err = "P2002"
    /\ conn[c].req.method = "POST"

(***************************************************************************)
(* C1: DELETE /users/:id answers 404 {message: "User not found"} and       *)
(* leaves the store alone when no User has the id; answers 204 when one    *)
(* has, and the record is gone afterwards.                                 *)
(***************************************************************************)
C1_DeleteContract ==
  [][ Answers("DELETE", "/users/:id")
        => LET id == Number(res'.req.id)
           IN  IF id \in Ids(User)
               THEN res'.status = 204 /\ id \notin Ids(User')
               ELSE NotFoundBody(res') /\ User' = User
    ]_vars

(***************************************************************************)
(* C2: PUT /users/:id for an id no stored User has answers 404 {message:   *)
(* "User not found"} and leaves every stored record as it was.             *)
(***************************************************************************)
C2_UpdateMissingContract ==
  [][ Answers("PUT", "/users/:id") /\ Number(res'.req.id) \notin Ids(User)
        => NotFoundBody(res') /\ User' = User
    ]_vars

(***************************************************************************)
(* C10: PUT /users/:id for an existing id, with an email (if given) that   *)
(* no other User holds, answers 200 with the updated record: same id, each *)
(* given field new, each absent field old, every other User unchanged.     *)
(***************************************************************************)
C10_UpdateContract ==
  [][ /\ Answers("PUT", "/users/:id")
      /\ Number(res'.req.id) \in Ids(User)
      /\ \A i \in 1..Len(User) :
           User[i].email = res'.req.email => User[i].id = Number(res'.req.id)
      => LET id == Number(res'.req.id)
             old == Row(User, id)
             new == [id    |-> id,
                     name  |-> IF res'.req.name = undefined THEN old.name
                               ELSE res'.req.name,
                     email |-> IF res'.req.email = undefined THEN old.email
                               ELSE res'.req.email]
         IN  /\ res'.status = 200
             /\ res'.data = <<new>>
             /\ Len(User') = Len(User)
             /\ \A i \in 1..Len(User) :
                  User'[i] = IF User[i].id = id THEN new ELSE User[i]
    ]_vars

====
